---- MODULE Spec2Model ----
(***************************************************************************)
(* Model of SistemaDoacoes (src/main.py): the inventory per category, the  *)
(* three priority queues of requests, the allocation stack, the matching   *)
(* loop _tentar_alocar_para_pedidos and desfazer_ultima_alocacao.          *)
(*                                                                         *)
(* Identifiers: _novo_id() draws a fresh uuid prefix; the model numbers    *)
(* units, requests and allocations 1, 2, 3, ... in order of creation.      *)
(* Names, contacts, timestamps and the log are left out: no operation of   *)
(* the engine reads them.                                                  *)
(*                                                                         *)
(* The matching loop is modelled one iteration per step: a public call     *)
(* registers its unit or request and moves pc to "alocando"; only          *)
(* IterarAlocacao is enabled until the loop breaks and pc returns to       *)
(* "ocioso", so no other operation interleaves with a call in progress.    *)
(***************************************************************************)
EXTENDS Integers, Sequences, FiniteSets, TLC

\* Bound of the model: number of registrar_doacao + cadastrar_pedido calls.
MaxOps == 4

\* The same bound for the runs in which nothing is undone.
MaxOpsSemDesfazer == 5

\* Inputs of the calls.
\* Requests of the category "Desconhecido" are the requests of another
\* category, and the only ones the units put back by an undo can serve.
Categorias == {"Alimentos"}
Desconhecido == "Desconhecido"
CategoriasPedido == Categorias \cup {Desconhecido}
Prioridades == {"alta", "media", "baixa"}
Quantidades == {1, 2}

\* Inputs of the calls when nothing is assumed about them (any integer
\* quantity, any priority string).
QuantidadesLivres == {-1, 0, 1}
PrioridadesLivres == Prioridades \cup {"urgente"}

\* Priorities of the runs in which nothing is undone.
PrioridadesSemDesfazer == {"alta", "media"}

\* Inputs of the worked scenarios of the specification.
CategoriasCenario == {"Alimentos"}
PrioridadesCenario == {"alta"}
QuantidadesCenario == {3, 4, 5, 10}

None == 0

VARIABLES
    estoque,              \* self.estoque: categoria -> sequence of ItemDoacao
    fila_alta,            \* self.fila_alta: sequence of request ids
    fila_media,           \* self.fila_media
    fila_baixa,           \* self.fila_baixa
    pedidos,              \* self.pedidos: request id -> Pedido
    historico_alocacoes,  \* self.historico_alocacoes: stack of Alocacao
    n_aloc,               \* number of allocations created so far (their ids)
    pc,                   \* "ocioso", or "alocando" inside the matching loop
    categoria_alvo,       \* the categoria argument of the running loop
    retorno,              \* what the last call returned (or will return)
    doado,                \* history: categoria -> total quantity donated
    origem,               \* history: unit id -> categoria and quantity donated
    solicitado,           \* history: request id -> quantity registered
    chamada               \* history: the running (or last) matching loop: the
                          \* units and waiting requests of its category when
                          \* it started, and its iterations so far

vars == <<estoque, fila_alta, fila_media, fila_baixa, pedidos,
          historico_alocacoes, n_aloc, pc, categoria_alvo, retorno,
          doado, origem, solicitado, chamada>>

----------------------------------------------------------------------------
\* Data

ItemDoacao(id, categoria, quantidade) ==
    [id |-> id, categoria |-> categoria, quantidade |-> quantidade]

Pedido(id, categoria, quantidade, prioridade) ==
    [id |-> id, categoria |-> categoria, quantidade |-> quantidade,
     prioridade |-> prioridade, atendido |-> FALSE]

Alocacao(id, item_id, pedido_id, quantidade) ==
    [id |-> id, item_id |-> item_id, pedido_id |-> pedido_id,
     quantidade |-> quantidade]

\* defaultdict(list): reading a missing key yields [] ...
Itens(e, cat) == IF cat \in DOMAIN e THEN e[cat] ELSE <<>>

\* ... and inserts it.
Tocar(e, cat) ==
    [c \in (DOMAIN e) \cup {cat} |-> IF c \in DOMAIN e THEN e[c] ELSE <<>>]

Min(a, b) == IF a <= b THEN a ELSE b

RECURSIVE Soma(_)
Soma(s) == IF s = <<>> THEN 0 ELSE Head(s).quantidade + Soma(Tail(s))

Elementos(s) == {s[i] : i \in 1..Len(s)}

\* deque.remove(x) / list.remove(x): drops the first occurrence of x.
Remover(fila, x) ==
    LET k == CHOOSE i \in 1..Len(fila) :
                 fila[i] = x /\ \A j \in 1..(i - 1) : fila[j] # x
    IN SubSeq(fila, 1, k - 1) \o SubSeq(fila, k + 1, Len(fila))

----------------------------------------------------------------------------
\* Initial state: SistemaDoacoes.__init__

Init ==
    /\ estoque = [c \in {} |-> <<>>]
    /\ fila_alta = <<>>
    /\ fila_media = <<>>
    /\ fila_baixa = <<>>
    /\ pedidos = <<>>
    /\ historico_alocacoes = <<>>
    /\ n_aloc = 0
    /\ pc = "ocioso"
    /\ categoria_alvo = "nenhuma"
    /\ retorno = [op |-> "nenhuma", id |-> None, ok |-> TRUE]
    /\ doado = [c \in CategoriasPedido |-> 0]
    /\ origem = <<>>
    /\ solicitado = <<>>
    /\ chamada = [unidades |-> 0, pendentes |-> {}, iteracoes |-> 0]

\* The requests of a category that wait in the queues F (lines 155-157).
PendentesDe(F, P, cat) ==
    {id \in Elementos(F[1]) \cup Elementos(F[2]) \cup Elementos(F[3]) :
        /\ id \in DOMAIN P
        /\ ~P[id].atendido
        /\ P[id].categoria = cat}

\* The matching loop as it is entered for a category.
InicioDoLaco(e, F, P, cat) ==
    [unidades |-> Len(Itens(e, cat)),
     pendentes |-> PendentesDe(F, P, cat),
     iteracoes |-> 0]

NumOps == Len(origem) + Len(pedidos)

----------------------------------------------------------------------------
\* registrar_doacao, up to the call of the matching loop

RegistrarDoacaoAte(limite, categoria, quantidade) ==
    /\ pc = "ocioso"
    /\ NumOps < limite
    /\ LET id_ == Len(origem) + 1
           item == ItemDoacao(id_, categoria, quantidade)
       IN /\ estoque' = [Tocar(estoque, categoria) EXCEPT
                            ![categoria] = Append(@, item)]
          /\ origem' = Append(origem, [categoria |-> categoria,
                                       quantidade |-> quantidade])
          /\ doado' = [doado EXCEPT ![categoria] = @ + quantidade]
          /\ retorno' = [op |-> "registrar_doacao", id |-> id_, ok |-> TRUE]
    /\ pc' = "alocando"
    /\ categoria_alvo' = categoria
    /\ chamada' = InicioDoLaco(estoque', <<fila_alta, fila_media, fila_baixa>>,
                               pedidos, categoria)
    /\ UNCHANGED <<fila_alta, fila_media, fila_baixa, pedidos,
                   historico_alocacoes, n_aloc, solicitado>>

RegistrarDoacao(categoria, quantidade) ==
    RegistrarDoacaoAte(MaxOps, categoria, quantidade)

\* cadastrar_pedido, up to the call of the matching loop

CadastrarPedidoAte(limite, categoria, quantidade, prioridade) ==
    /\ pc = "ocioso"
    /\ NumOps < limite
    /\ LET id_ == Len(pedidos) + 1
           pedido == Pedido(id_, categoria, quantidade, prioridade)
       IN /\ pedidos' = Append(pedidos, pedido)
          /\ fila_alta' = IF prioridade = "alta"
                          THEN Append(fila_alta, id_) ELSE fila_alta
          /\ fila_media' = IF prioridade # "alta" /\ prioridade = "media"
                           THEN Append(fila_media, id_) ELSE fila_media
          /\ fila_baixa' = IF prioridade # "alta" /\ prioridade # "media"
                           THEN Append(fila_baixa, id_) ELSE fila_baixa
          /\ solicitado' = Append(solicitado, quantidade)
          /\ retorno' = [op |-> "cadastrar_pedido", id |-> id_, ok |-> TRUE]
    /\ pc' = "alocando"
    /\ categoria_alvo' = categoria
    /\ chamada' = InicioDoLaco(estoque, <<fila_alta', fila_media', fila_baixa'>>,
                               pedidos', categoria)
    /\ UNCHANGED <<estoque, historico_alocacoes, n_aloc, doado, origem>>

CadastrarPedido(categoria, quantidade, prioridade) ==
    CadastrarPedidoAte(MaxOps, categoria, quantidade, prioridade)

----------------------------------------------------------------------------
\* _tentar_alocar_para_pedidos: one iteration of its while True loop.
\* The three queues are handled as the tuple (fila_alta, fila_media,
\* fila_baixa) the code iterates over.

\* prox_pedido() with the queues visited from baixa to alta.
prox_pedido_baixa_primeiro(F) ==
    IF F[3] # <<>> THEN Head(F[3])
    ELSE IF F[2] # <<>> THEN Head(F[2])
    ELSE IF F[1] # <<>> THEN Head(F[1])
    ELSE None

\* prox_pedido(): the front of the first non-empty queue, or None.
prox_pedido(F) ==
    IF F[1] # <<>> THEN Head(F[1])
    ELSE IF F[2] # <<>> THEN Head(F[2])
    ELSE IF F[3] # <<>> THEN Head(F[3])
    ELSE None

\* Lines 147-149: every queue whose front is pedido_id loses its front.
RemoverFrentes(F, pedido_id) ==
    [i \in 1..3 |-> IF F[i] # <<>> /\ Head(F[i]) = pedido_id
                    THEN Tail(F[i]) ELSE F[i]]

\* Lines 155-159: position in fila of the first request that is known, not
\* atendido and of the category; 0 when there is none.
PrimeiroCompativel(fila, P, categoria) ==
    LET idx == {i \in 1..Len(fila) :
                   /\ fila[i] \in DOMAIN P
                   /\ ~P[fila[i]].atendido
                   /\ P[fila[i]].categoria = categoria}
    IN IF idx = {} THEN 0 ELSE CHOOSE i \in idx : \A j \in idx : i <= j

\* Lines 154-166 with only fila_alta searched.
FilaComCompativel_so_alta(F, P, categoria) ==
    IF PrimeiroCompativel(F[1], P, categoria) # 0 THEN 1 ELSE 0

\* Lines 154-166: the first queue, in priority order, that holds a
\* compatible request; 0 when none does.
FilaComCompativel(F, P, categoria) ==
    IF PrimeiroCompativel(F[1], P, categoria) # 0 THEN 1
    ELSE IF PrimeiroCompativel(F[2], P, categoria) # 0 THEN 2
    ELSE IF PrimeiroCompativel(F[3], P, categoria) # 0 THEN 3
    ELSE 0

\* Lines 162-163: while fila[0] != found: fila.rotate(-1), for the request
\* at position k; each rotate(-1) moves the front to the back.
TrazerParaFrente(fila, k) ==
    SubSeq(fila, k, Len(fila)) \o SubSeq(fila, 1, k - 1)

\* Line 174 with the whole unit handed over.
alocar_qtd_item_inteiro(item_quantidade, pedido_quantidade) ==
    item_quantidade

\* Line 174.
alocar_qtd(item_quantidade, pedido_quantidade) ==
    Min(item_quantidade, pedido_quantidade)

\* Lines 188-194 with the removal forgotten.
RemoverDaFila_esquecido(F, id) == F

\* Lines 188-194: the first queue, in priority order, that holds the id
\* loses its first occurrence of it; the others are left alone.
RemoverDaFila(F, id) ==
    LET i == IF id \in Elementos(F[1]) THEN 1
             ELSE IF id \in Elementos(F[2]) THEN 2
             ELSE IF id \in Elementos(F[3]) THEN 3
             ELSE 0
    IN IF i = 0 THEN F ELSE [F EXCEPT ![i] = Remover(F[i], id)]

\* Lines 180-184 with the stock left as it was.
ConsumirEstoque_sem_baixa(e, categoria, qtd) == e

\* Lines 180-184 with the exhausted unit left in the list.
ConsumirEstoque_sem_despejo(e, categoria, qtd) ==
    [e EXCEPT ![categoria] =
        <<[Head(@) EXCEPT !.quantidade = @ - qtd]>> \o Tail(@)]

\* Lines 180-184: the front unit of the category loses qtd and is evicted
\* at quantity <= 0.
ConsumirEstoque(e, categoria, qtd) ==
    LET item == Head(e[categoria])
        resto == item.quantidade - qtd
    IN [e EXCEPT ![categoria] =
           IF resto <= 0 THEN Tail(@)
           ELSE <<[item EXCEPT !.quantidade = resto]>> \o Tail(@)]

\* Lines 181, 185-194 with the request left as it was.
ConsumirPedido_sem_baixa(P, id, qtd) == P

\* Lines 181, 185-194: the request loses qtd; at quantity <= 0 it is marked
\* atendido.
ConsumirPedido(P, id, qtd) ==
    LET resto == P[id].quantidade - qtd
    IN [P EXCEPT ![id] = [@ EXCEPT !.quantidade = resto,
                                   !.atendido = (resto <= 0)]]

\* What one iteration decides, from the state at its start:
\*   "vazio"      no queue holds a request: break (line 143)
\*   "limpar"     the front request is unknown or atendido (lines 145-150)
\*   "sem_pedido" no compatible request: break (line 168)
\*   "sem_estoque" a compatible request, no unit: break (line 171)
\*   "alocar"     one allocation (lines 173-194)
Passo(e, F, P, categoria) ==
    LET pedido_id == prox_pedido(F)
    IN IF pedido_id = None THEN "vazio"
       ELSE IF pedido_id \notin DOMAIN P \/ P[pedido_id].atendido
            THEN "limpar"
       ELSE IF /\ P[pedido_id].categoria # categoria
               /\ FilaComCompativel(F, P, categoria) = 0
            THEN "sem_pedido"
       ELSE IF Itens(e, categoria) = <<>> THEN "sem_estoque"
       ELSE "alocar"

\* The queues after lines 151-166: untouched when the front request is of
\* the category, else the queue of the found request rotated.
FilasAposBusca(F, P, categoria) ==
    LET q == FilaComCompativel(F, P, categoria)
    IN IF P[prox_pedido(F)].categoria = categoria \/ q = 0 THEN F
       ELSE [F EXCEPT ![q] =
                TrazerParaFrente(@, PrimeiroCompativel(@, P, categoria))]

\* The request the iteration serves (lines 141, 164).
PedidoEscolhido(F, P, categoria) ==
    IF P[prox_pedido(F)].categoria = categoria THEN prox_pedido(F)
    ELSE Head(FilasAposBusca(F, P, categoria)[
                  FilaComCompativel(F, P, categoria)])

IterarAlocacao ==
    /\ pc = "alocando"
    /\ LET F == <<fila_alta, fila_media, fila_baixa>>
           P == pedidos
           cat == categoria_alvo
           passo == Passo(estoque, F, P, cat)
       IN CASE passo = "vazio" ->
                 /\ pc' = "ocioso"
                 /\ UNCHANGED <<estoque, fila_alta, fila_media, fila_baixa,
                                pedidos, historico_alocacoes, n_aloc>>
            [] passo = "limpar" ->
                 LET F1 == RemoverFrentes(F, prox_pedido(F))
                 IN /\ fila_alta' = F1[1]
                    /\ fila_media' = F1[2]
                    /\ fila_baixa' = F1[3]
                    /\ pc' = "alocando"
                    /\ UNCHANGED <<estoque, pedidos, historico_alocacoes,
                                   n_aloc>>
            [] passo = "sem_pedido" ->
                 /\ pc' = "ocioso"
                 /\ UNCHANGED <<estoque, fila_alta, fila_media, fila_baixa,
                                pedidos, historico_alocacoes, n_aloc>>
            [] passo = "sem_estoque" ->
                 LET F1 == FilasAposBusca(F, P, cat)
                 IN /\ fila_alta' = F1[1]
                    /\ fila_media' = F1[2]
                    /\ fila_baixa' = F1[3]
                    /\ estoque' = Tocar(estoque, cat)
                    /\ pc' = "ocioso"
                    /\ UNCHANGED <<pedidos, historico_alocacoes, n_aloc>>
            [] passo = "alocar" ->
                 LET F1 == FilasAposBusca(F, P, cat)
                     id == PedidoEscolhido(F, P, cat)
                     item == Head(estoque[cat])
                     qtd == alocar_qtd(item.quantidade, P[id].quantidade)
                     aloc == Alocacao(n_aloc + 1, item.id, id, qtd)
                     P1 == ConsumirPedido(P, id, qtd)
                     F2 == IF P1[id].atendido THEN RemoverDaFila(F1, id)
                           ELSE F1
                 IN /\ historico_alocacoes' =
                           Append(historico_alocacoes, aloc)
                    /\ n_aloc' = n_aloc + 1
                    /\ estoque' = ConsumirEstoque(estoque, cat, qtd)
                    /\ pedidos' = P1
                    /\ fila_alta' = F2[1]
                    /\ fila_media' = F2[2]
                    /\ fila_baixa' = F2[3]
                    /\ pc' = "alocando"
    /\ chamada' = [chamada EXCEPT !.iteracoes = @ + 1]
    /\ UNCHANGED <<categoria_alvo, retorno, doado, origem, solicitado>>

----------------------------------------------------------------------------
\* desfazer_ultima_alocacao

\* Line 209 with the quantity of the allocation left out.
item_recriado_vazio(aloc) ==
    ItemDoacao(aloc.item_id, Desconhecido, 0)

\* Line 209: the unit put back for an undone allocation.
item_recriado(aloc) ==
    ItemDoacao(aloc.item_id, Desconhecido, aloc.quantidade)

\* Lines 211-223 with line 223 left out: the quantity is not given back.
ReativarPedido_sem_devolucao(P, aloc) ==
    IF aloc.pedido_id \notin DOMAIN P THEN P
    ELSE [P EXCEPT ![aloc.pedido_id] = [@ EXCEPT !.atendido = FALSE]]

\* Lines 211-223: the request of the undone allocation.
ReativarPedido(P, aloc) ==
    IF aloc.pedido_id \notin DOMAIN P THEN P
    ELSE [P EXCEPT ![aloc.pedido_id] =
             [@ EXCEPT !.atendido = FALSE,
                       !.quantidade = @ + aloc.quantidade]]

\* Lines 214-222 with append in place of appendleft.
ReinserirNaFila_no_fim(fila, nome, P, aloc) ==
    LET pedido == P[aloc.pedido_id]
        destino == IF pedido.prioridade = "alta" THEN "alta"
                   ELSE IF pedido.prioridade = "media" THEN "media"
                   ELSE "baixa"
    IN IF aloc.pedido_id \in DOMAIN P /\ pedido.atendido /\ destino = nome
       THEN Append(fila, pedido.id)
       ELSE fila

\* Lines 214-222: appendleft on the queue of the request's priority.
ReinserirNaFila(fila, nome, P, aloc) ==
    LET pedido == P[aloc.pedido_id]
        destino == IF pedido.prioridade = "alta" THEN "alta"
                   ELSE IF pedido.prioridade = "media" THEN "media"
                   ELSE "baixa"
    IN IF aloc.pedido_id \in DOMAIN P /\ pedido.atendido /\ destino = nome
       THEN <<pedido.id>> \o fila
       ELSE fila

\* Line 202, list.pop(): the entry returned ...
UltimaAlocacao(h) == h[Len(h)]

\* list.pop(0) instead of list.pop(): the oldest entry leaves.
SemPrimeiraAlocacao(h) == Tail(h)

\* ... and the list it leaves.
SemUltimaAlocacao(h) == SubSeq(h, 1, Len(h) - 1)

\* Lines 199-201 with the empty stack not told apart.
ResultadoDesfazer_sempre(h) == TRUE

\* Lines 199-201 and 227: the value returned.
ResultadoDesfazer(h) == h # <<>>

DesfazerUltimaAlocacao ==
    /\ pc = "ocioso"
    /\ retorno' = [op |-> "desfazer_ultima_alocacao", id |-> None,
                   ok |-> ResultadoDesfazer(historico_alocacoes)]
    /\ IF historico_alocacoes = <<>>
       THEN UNCHANGED <<estoque, fila_alta, fila_media, fila_baixa,
                        pedidos, historico_alocacoes>>
       ELSE LET aloc == UltimaAlocacao(historico_alocacoes)
                item == item_recriado(aloc)
            IN /\ historico_alocacoes' =
                      SemUltimaAlocacao(historico_alocacoes)
               /\ pedidos' = ReativarPedido(pedidos, aloc)
               /\ fila_alta' = ReinserirNaFila(fila_alta, "alta", pedidos, aloc)
               /\ fila_media' =
                      ReinserirNaFila(fila_media, "media", pedidos, aloc)
               /\ fila_baixa' =
                      ReinserirNaFila(fila_baixa, "baixa", pedidos, aloc)
               /\ estoque' = [Tocar(estoque, item.categoria) EXCEPT
                                 ![item.categoria] = Append(@, item)]
    /\ UNCHANGED <<n_aloc, pc, categoria_alvo, doado, origem, solicitado,
                   chamada>>

----------------------------------------------------------------------------
\* Specifications

\* Calls with positive quantities and the three priorities.
Next ==
    \/ \E c \in Categorias, q \in Quantidades : RegistrarDoacao(c, q)
    \/ \E c \in CategoriasPedido, q \in Quantidades, p \in Prioridades :
           CadastrarPedido(c, q, p)
    \/ IterarAlocacao
    \/ DesfazerUltimaAlocacao

Spec == Init /\ [][Next]_vars

\* Calls with any quantity and any priority string.
NextLivre ==
    \/ \E c \in Categorias, q \in QuantidadesLivres : RegistrarDoacao(c, q)
    \/ \E c \in Categorias, q \in QuantidadesLivres,
          p \in PrioridadesLivres : CadastrarPedido(c, q, p)
    \/ IterarAlocacao
    \/ DesfazerUltimaAlocacao

SpecLivre == Init /\ [][NextLivre]_vars

\* The worked scenarios: one category, their quantities.
NextCenario ==
    \/ \E c \in CategoriasCenario, q \in QuantidadesCenario :
           RegistrarDoacao(c, q)
    \/ \E c \in CategoriasCenario, q \in QuantidadesCenario,
          p \in PrioridadesCenario : CadastrarPedido(c, q, p)
    \/ IterarAlocacao
    \/ DesfazerUltimaAlocacao

SpecCenario == Init /\ [][NextCenario]_vars

\* Sequences of registrar_doacao and cadastrar_pedido calls: nothing is
\* undone.
NextSemDesfazer ==
    \/ \E c \in Categorias, q \in Quantidades :
           RegistrarDoacaoAte(MaxOpsSemDesfazer, c, q)
    \/ \E c \in CategoriasPedido, q \in Quantidades,
          p \in PrioridadesSemDesfazer :
           CadastrarPedidoAte(MaxOpsSemDesfazer, c, q, p)
    \/ IterarAlocacao

SpecSemDesfazer == Init /\ [][NextSemDesfazer]_vars

----------------------------------------------------------------------------
\* Quantities read off a state

\* Quantity available in a category.
Disponivel(cat) == Soma(Itens(estoque, cat))

\* The categories that hold a key of estoque or a donation.
CategoriasConhecidas == CategoriasPedido \cup DOMAIN estoque

\* Quantity of the allocations of the stack whose unit was donated in cat.
RECURSIVE AlocadoDe(_, _)
AlocadoDe(h, cat) ==
    IF h = <<>> THEN 0
    ELSE (IF origem[Head(h).item_id].categoria = cat
          THEN Head(h).quantidade ELSE 0) + AlocadoDe(Tail(h), cat)

Filas == <<fila_alta, fila_media, fila_baixa>>

\* A call has returned and the next has not started.
EntreChamadas == pc = "ocioso"

----------------------------------------------------------------------------
\* C1 - Per-category conservation: between calls, for every category the
\* quantity in stock in the category plus the quantity of the allocations
\* still on the stack whose unit was donated in the category equals the
\* total quantity donated to the category.
C1_ConservacaoPorCategoria ==
    EntreChamadas =>
        \A cat \in CategoriasConhecidas :
            Disponivel(cat) + AlocadoDe(historico_alocacoes, cat) = doado[cat]

\* C2 - Undo reversibility: from the empty system, a donation of 10 in a
\* category, a high-priority request of 4 in it (one allocation of 4) and one
\* undo leave the request with remaining quantity 4 and the category with 10
\* available.
C2_Cenario ==
    /\ EntreChamadas
    /\ origem = <<[categoria |-> "Alimentos", quantidade |-> 10]>>
    /\ solicitado = <<4>>
    /\ Len(pedidos) = 1
    /\ pedidos[1].categoria = "Alimentos"
    /\ pedidos[1].prioridade = "alta"
    /\ n_aloc = 1
    /\ historico_alocacoes = <<>>
    /\ retorno.op = "desfazer_ultima_alocacao"

C2_Reversibilidade ==
    C2_Cenario =>
        /\ pedidos[1].quantidade = 4
        /\ Disponivel("Alimentos") = 10

----------------------------------------------------------------------------
\* Vocabulary of the claims about single steps

Ultima(h) == h[Len(h)]

\* The step is an iteration of the matching loop that pushed an allocation.
PassoAlocou ==
    /\ pc = "alocando"
    /\ Len(historico_alocacoes') = Len(historico_alocacoes) + 1

\* The step is a call of desfazer_ultima_alocacao (the only call that leaves
\* pc at "ocioso").
PassoDesfazer == pc = "ocioso" /\ pc' = "ocioso"

\* alta before media before baixa.
Ordem(prioridade) ==
    IF prioridade = "alta" THEN 1 ELSE IF prioridade = "media" THEN 2 ELSE 3

\* Number of occurrences of a request id in the three queues.
Ocorrencias(id) ==
    Cardinality(UNION {{<<f, i>> : i \in {k \in 1..Len(Filas[f]) :
                                              Filas[f][k] = id}} :
                       f \in 1..3})

NasFilas == Elementos(fila_alta) \cup Elementos(fila_media)
                \cup Elementos(fila_baixa)

\* The requests of a category waiting in the queues.
Pendentes(cat) ==
    {id \in NasFilas : /\ id \in DOMAIN pedidos
                       /\ ~pedidos[id].atendido
                       /\ pedidos[id].categoria = cat}

\* The units in stock, of all categories.
UnidadesEmEstoque(e) ==
    UNION {{<<cat, k>> : k \in 1..Len(e[cat])} : cat \in DOMAIN e}

RECURSIVE SomaCategorias(_, _)
SomaCategorias(e, cats) ==
    IF cats = {} THEN 0
    ELSE LET c == CHOOSE x \in cats : TRUE
         IN Soma(e[c]) + SomaCategorias(e, cats \ {c})

\* Quantity in stock, all categories together.
TotalEmEstoque(e) == SomaCategorias(e, DOMAIN e)

IsPrefixo(s, t) == Len(s) <= Len(t) /\ SubSeq(t, 1, Len(s)) = s

----------------------------------------------------------------------------
\* C3 - Priority ordering: every allocation goes to a request such that no
\* request of the same category waiting in the queues has a higher priority
\* (alta before media before baixa), whatever the order of registration and
\* whatever requests of other categories sit in the queues.
C3_OrdemDePrioridade ==
    [][PassoAlocou =>
          LET a == Ultima(historico_alocacoes')
              escolhido == pedidos[a.pedido_id]
          IN \A r \in Pendentes(escolhido.categoria) :
                 Ordem(escolhido.prioridade) <= Ordem(pedidos[r].prioridade)
      ]_vars

\* A donation has just been spent on a request of higher priority registered
\* after a request of the same category that still waits untouched, with a
\* request of another category at the front of a queue of at least that
\* priority.
C3_Testemunha ==
    /\ EntreChamadas
    /\ retorno.op = "registrar_doacao"
    /\ historico_alocacoes # <<>>
    /\ LET a == Ultima(historico_alocacoes)
           escolhido == pedidos[a.pedido_id]
       IN /\ a.id = n_aloc
          /\ a.item_id = retorno.id
          /\ Disponivel(escolhido.categoria) = 0
          /\ \E r \in Pendentes(escolhido.categoria) :
                 /\ r < a.pedido_id
                 /\ Ordem(pedidos[r].prioridade) > Ordem(escolhido.prioridade)
                 /\ pedidos[r].quantidade = solicitado[r]
          /\ \E o \in NasFilas :
                 /\ pedidos[o].categoria # escolhido.categoria
                 /\ o < a.pedido_id
                 /\ Ordem(pedidos[o].prioridade) <= Ordem(escolhido.prioridade)

\* C4 - Queue singularity: every request id occurs at most once across the
\* three queues, and it occurs there exactly when the request has
\* atendido = False and quantidade > 0; the queues hold only known requests.
C4_FilaUnica ==
    /\ NasFilas \subseteq DOMAIN pedidos
    /\ \A id \in DOMAIN pedidos :
           /\ Ocorrencias(id) <= 1
           /\ Ocorrencias(id) = 1 <=>
                  (~pedidos[id].atendido /\ pedidos[id].quantidade > 0)

\* A satisfied request that left its queue, next to a request that an undo
\* put back in its queue.
C4_Testemunha ==
    /\ EntreChamadas
    /\ retorno.op = "desfazer_ultima_alocacao"
    /\ retorno.ok
    /\ \E id \in DOMAIN pedidos :
           pedidos[id].atendido /\ Ocorrencias(id) = 0
    /\ \E id \in DOMAIN pedidos :
           /\ ~pedidos[id].atendido
           /\ Ocorrencias(id) = 1
           /\ n_aloc >= 2
           /\ \A i \in 1..Len(historico_alocacoes) :
                  historico_alocacoes[i].pedido_id # id

\* C5 - Allocation amount: the allocation an iteration pushes is taken from
\* the front unit of the category for a waiting request of the category, and
\* its quantity is the smaller of the two remaining quantities at that
\* moment: strictly positive, at most each of them, equal to one of them.
C5_QuantidadeAlocada ==
    [][PassoAlocou =>
          LET a == Ultima(historico_alocacoes')
              item == Head(estoque[categoria_alvo])
              pedido == pedidos[a.pedido_id]
          IN /\ a.item_id = item.id
             /\ a.pedido_id \in Pendentes(categoria_alvo)
             /\ a.quantidade > 0
             /\ a.quantidade <= item.quantidade
             /\ a.quantidade <= pedido.quantidade
             /\ a.quantidade = item.quantidade
                    \/ a.quantidade = pedido.quantidade
      ]_vars

\* The stack holds an allocation smaller than its unit was donated and one
\* smaller than its request was registered.
C5_Testemunha ==
    /\ \E i \in 1..Len(historico_alocacoes) :
           LET a == historico_alocacoes[i]
           IN a.quantidade < origem[a.item_id].quantidade
    /\ \E i \in 1..Len(historico_alocacoes) :
           LET a == historico_alocacoes[i]
           IN a.quantidade < solicitado[a.pedido_id]

\* C6 - FIFO stock consumption: no allocation references a unit while a unit
\* donated earlier in the same category still has remaining quantity in
\* stock.
C6_FifoDoEstoque ==
    [][PassoAlocou =>
          LET a == Ultima(historico_alocacoes')
          IN \A u \in UnidadesEmEstoque(estoque) :
                 LET unidade == estoque[u[1]][u[2]]
                 IN ~ /\ unidade.id < a.item_id
                      /\ origem[unidade.id].categoria
                             = origem[a.item_id].categoria
                      /\ unidade.quantidade > 0
      ]_vars

\* C7 - No-op when nothing can be matched: an iteration of the matching loop
\* for a category with no waiting request or with no unit in stock pushes no
\* allocation and leaves the units in stock, the request records and the
\* content and order of the three queues as they were.
C7_SemEfeito ==
    [][(/\ pc = "alocando"
        /\ \/ Pendentes(categoria_alvo) = {}
           \/ Itens(estoque, categoria_alvo) = <<>>)
       => /\ historico_alocacoes' = historico_alocacoes
          /\ pedidos' = pedidos
          /\ <<fila_alta', fila_media', fila_baixa'>> = Filas
          /\ \A cat \in CategoriasConhecidas :
                 Itens(estoque', cat) = Itens(estoque, cat)
      ]_vars

\* C8 - The ledger is a strict stack: an undo removes the last entry of the
\* stack and no other, the entries are in order of creation, the stock grows
\* by that entry's quantity with the units already there untouched, and only
\* that entry's request grows, by that entry's quantity.
C8_PilhaEstrita ==
    [][(PassoDesfazer /\ historico_alocacoes # <<>>) =>
          LET h == historico_alocacoes
              a == Ultima(h)
          IN /\ historico_alocacoes' = SubSeq(h, 1, Len(h) - 1)
             /\ \A i, j \in 1..Len(h) : i < j => h[i].id < h[j].id
             /\ TotalEmEstoque(estoque') = TotalEmEstoque(estoque) + a.quantidade
             /\ \A cat \in DOMAIN estoque : IsPrefixo(estoque[cat], estoque'[cat])
             /\ \A id \in DOMAIN pedidos :
                    pedidos'[id].quantidade =
                        pedidos[id].quantidade
                            + (IF id = a.pedido_id THEN a.quantidade ELSE 0)
      ]_vars

\* Undos have taken the two latest of three allocations off the stack, which
\* still holds the oldest.
C8_Testemunha ==
    /\ EntreChamadas
    /\ retorno.op = "desfazer_ultima_alocacao"
    /\ retorno.ok
    /\ n_aloc = 3
    /\ Len(historico_alocacoes) = 1
    /\ historico_alocacoes[1].id = 1

\* C9 - Undo result: with an empty stack the call returns False and leaves
\* stock, queues, request records and stack as they were; with a non-empty
\* stack it returns True.
C9_ResultadoDoDesfazer ==
    [][PassoDesfazer =>
          /\ retorno'.op = "desfazer_ultima_alocacao"
          /\ IF historico_alocacoes = <<>>
             THEN /\ retorno'.ok = FALSE
                  /\ UNCHANGED <<estoque, fila_alta, fila_media, fila_baixa,
                                 pedidos, historico_alocacoes>>
             ELSE retorno'.ok = TRUE
      ]_vars

\* An undo found the stack empty after earlier allocations were undone.
C9_Testemunha ==
    /\ retorno.op = "desfazer_ultima_alocacao"
    /\ retorno.ok = FALSE
    /\ n_aloc >= 1
    /\ historico_alocacoes = <<>>

\* C10 - Input rejection: a registrar_doacao or cadastrar_pedido call with a
\* quantity <= 0, and a cadastrar_pedido call with a priority outside
\* {alta, media, baixa}, creates no unit and no request: every unit and every
\* request ever created has a positive quantity and a known priority.
C10_EntradaRejeitada ==
    /\ \A i \in 1..Len(origem) : origem[i].quantidade > 0
    /\ \A i \in 1..Len(pedidos) :
           /\ solicitado[i] > 0
           /\ pedidos[i].prioridade \in Prioridades

----------------------------------------------------------------------------
\* A registrar_doacao or cadastrar_pedido call has returned and nothing was
\* called since.
RegistroRetornou ==
    /\ EntreChamadas
    /\ retorno.op \in {"registrar_doacao", "cadastrar_pedido"}

\* C11 - Matching is exhaustive for the affected category: when
\* registrar_doacao or cadastrar_pedido returns, the category of the call
\* holds no unit or has no request waiting. In particular a request
\* registered in the empty system stays as registered, once in its queue, and
\* a donation of its quantity in its category, registered next, satisfies it
\* fully with one allocation.
C11_AlocacaoExaustiva ==
    /\ RegistroRetornou =>
           \/ Itens(estoque, categoria_alvo) = <<>>
           \/ Pendentes(categoria_alvo) = {}
    /\ (RegistroRetornou /\ Len(pedidos) = 1 /\ origem = <<>>) =>
           /\ ~pedidos[1].atendido
           /\ pedidos[1].quantidade = solicitado[1]
           /\ Ocorrencias(1) = 1
           /\ historico_alocacoes = <<>>
    /\ (/\ RegistroRetornou
        /\ retorno.op = "registrar_doacao"
        /\ Len(pedidos) = 1
        /\ Len(origem) = 1
        /\ origem[1] = [categoria |-> pedidos[1].categoria,
                        quantidade |-> solicitado[1]]) =>
           /\ pedidos[1].atendido
           /\ pedidos[1].quantidade = 0
           /\ Ocorrencias(1) = 0
           /\ Itens(estoque, pedidos[1].categoria) = <<>>
           /\ historico_alocacoes = <<Alocacao(1, 1, 1, solicitado[1])>>

\* The request that waited for stock has just been satisfied by a donation
\* of its quantity.
C11_Testemunha ==
    /\ RegistroRetornou
    /\ retorno.op = "registrar_doacao"
    /\ Len(pedidos) = 1
    /\ Len(origem) = 1
    /\ origem[1].quantidade = solicitado[1]
    /\ pedidos[1].atendido

----------------------------------------------------------------------------
\* ver_estoque: categoria -> the id and quantity of each unit (name and date
\* left out).
ver_estoque(e) ==
    [cat \in DOMAIN e |->
        [i \in 1..Len(e[cat]) |->
            [id |-> e[cat][i].id, qtd |-> e[cat][i].quantidade]]]

\* sum(it['qtd'] for it in itens)
RECURSIVE SomaQtd(_)
SomaQtd(itens) ==
    IF itens = <<>> THEN 0 ELSE Head(itens).qtd + SomaQtd(Tail(itens))

----------------------------------------------------------------------------
\* cadastrar_pedido has returned for a request of positive quantity whose
\* category held at least one unit when the request was registered.
PedidoComEstoqueRetornou ==
    /\ EntreChamadas
    /\ retorno.op = "cadastrar_pedido"
    /\ retorno.id = Len(pedidos)
    /\ solicitado[retorno.id] > 0
    /\ chamada.unidades > 0

\* The new request was served: marked atendido or left with less than asked.
NovoPedidoServido ==
    \/ pedidos[retorno.id].atendido
    \/ pedidos[retorno.id].quantidade < solicitado[retorno.id]

\* The requests of the category that were waiting, unsatisfied, when the new
\* one was registered and whose priority is the same or higher.
Rivais ==
    {id \in chamada.pendentes \ {retorno.id} :
        Ordem(pedidos[id].prioridade) <= Ordem(pedidos[retorno.id].prioridade)}

\* C13 as stated - Automatic service on registration: in any reachable state
\* (states reached through undo included), when cadastrar_pedido registers a
\* request of positive quantity q for a category that has stock at that
\* moment, then on return the new request is marked atendido or has remaining
\* quantity strictly less than q.
C13_ServicoAutomatico ==
    PedidoComEstoqueRetornou => NovoPedidoServido

\* C13 as amended - the same, provided no unsatisfied request of that
\* category with the same or a higher priority is waiting in the queues when
\* the new one is registered.
C13_ServicoAutomaticoSemRivais ==
    (PedidoComEstoqueRetornou /\ Rivais = {}) => NovoPedidoServido

\* A request registered after an undo, behind a waiting request of lower
\* priority of its category, was served.
C13_Testemunha ==
    /\ PedidoComEstoqueRetornou
    /\ Rivais = {}
    /\ chamada.pendentes \ {retorno.id} # {}
    /\ n_aloc > Len(historico_alocacoes)
    /\ NovoPedidoServido

----------------------------------------------------------------------------
\* C14 - Unit identity: between calls no two units held in the inventory,
\* across all the categories of estoque, have the same id.
C14_IdentidadeDasUnidades ==
    EntreChamadas =>
        \A u, v \in UnidadesEmEstoque(estoque) :
            estoque[u[1]][u[2]].id = estoque[v[1]][v[2]].id => u = v

----------------------------------------------------------------------------
\* A sequence of ids without the id.
SemPedido(fila, id) == SelectSeq(fila, LAMBDA x : x # id)

\* The step is an iteration of the matching loop that found its compatible
\* request behind the front of its queue and brought it to the front.
PassoPromoveu ==
    /\ pc = "alocando"
    /\ Passo(estoque, Filas, pedidos, categoria_alvo)
           \in {"sem_estoque", "alocar"}
    /\ pedidos[prox_pedido(Filas)].categoria # categoria_alvo
    /\ PrimeiroCompativel(
           Filas[FilaComCompativel(Filas, pedidos, categoria_alvo)],
           pedidos, categoria_alvo) > 1

\* C15 - Promotion preserves order: when the matching loop brings a
\* compatible request that is not at the front of its queue to the front,
\* the other entries of that queue keep their relative order and the other
\* two queues are unchanged: each queue, the promoted request left out, is
\* the same sequence before and after the step.
C15_PromocaoPreservaOrdem ==
    [][PassoPromoveu =>
          LET id == PedidoEscolhido(Filas, pedidos, categoria_alvo)
          IN \A f \in 1..3 :
                 SemPedido(Filas'[f], id) = SemPedido(Filas[f], id)]_vars

----------------------------------------------------------------------------
\* C16 - FIFO among requests: in a sequence of registrar_doacao and
\* cadastrar_pedido calls without undo, an allocation never goes to a
\* request while a request registered earlier with the same category and the
\* same priority is still unsatisfied, whatever requests of other categories
\* sit in the same queue.
C16_FifoDosPedidos ==
    [][PassoAlocou =>
          LET p == Ultima(historico_alocacoes').pedido_id
          IN \A e \in 1..(p - 1) :
                 (/\ pedidos[e].categoria = pedidos[p].categoria
                  /\ pedidos[e].prioridade = pedidos[p].prioridade)
                     => pedidos[e].atendido]_vars

----------------------------------------------------------------------------
\* The allocating step evicted the front unit of the category of the call.
DespejouUnidade ==
    Itens(estoque', categoria_alvo) = Tail(Itens(estoque, categoria_alvo))

\* The allocating step marked the request it served atendido.
AtendeuPedido ==
    LET p == Ultima(historico_alocacoes').pedido_id
    IN ~pedidos[p].atendido /\ pedidos'[p].atendido

\* C17 - Matching terminates: every iteration of the loop of
\* _tentar_alocar_para_pedidos that allocates evicts the front unit of the
\* category or marks the chosen request atendido, and the iterations of a
\* call, the one that breaks included, number at most the units of the
\* category plus the pending requests of the category at the start of the
\* loop; so the loop ends.
C17_AlocacaoTermina ==
    [][pc = "alocando" =>
          /\ PassoAlocou => (DespejouUnidade \/ AtendeuPedido)
          /\ chamada'.iteracoes
                 <= chamada.unidades + Cardinality(chamada.pendentes)]_vars

\* A call whose loop ran three iterations: two allocations and the break.
C17_Testemunha ==
    /\ EntreChamadas
    /\ chamada.iteracoes = 3
    /\ chamada.unidades + Cardinality(chamada.pendentes) = 3
    /\ n_aloc >= 2

----------------------------------------------------------------------------
\* C18 - Reactivation on undo: when desfazer_ultima_alocacao pops an
\* allocation whose request is marked atendido, the request ends not
\* atendido, with its quantity increased by the allocation's quantity and
\* its id at the front of the queue of its priority, ahead of every entry
\* already there; when the request was not atendido, only its quantity
\* increases and the three queues are left as they were.
C18_ReativacaoNoDesfazer ==
    [][(PassoDesfazer /\ historico_alocacoes # <<>>) =>
          LET aloc == Ultima(historico_alocacoes)
              p == aloc.pedido_id
              k == Ordem(pedidos[p].prioridade)
          IN /\ pedidos'[p].quantidade =
                    pedidos[p].quantidade + aloc.quantidade
             /\ ~pedidos'[p].atendido
             /\ IF pedidos[p].atendido
                THEN Filas'[k] = <<p>> \o Filas[k]
                ELSE /\ Filas' = Filas
                     /\ pedidos' = [pedidos EXCEPT ![p].quantidade =
                                        @ + aloc.quantidade]]_vars

\* An undo has put a satisfied request back in front of a request that was
\* waiting in the queue of its priority: the request waits again while its
\* category still has a unit, which no registration call leaves behind.
C18_Testemunha ==
    /\ EntreChamadas
    /\ retorno.op = "desfazer_ultima_alocacao"
    /\ retorno.ok
    /\ \E f \in 1..3 :
           /\ Len(Filas[f]) >= 2
           /\ ~pedidos[Head(Filas[f])].atendido
           /\ pedidos[Head(Filas[f])].quantidade = solicitado[Head(Filas[f])]
           /\ Itens(estoque, pedidos[Head(Filas[f])].categoria) # <<>>

----------------------------------------------------------------------------
\* Sum of the quantities of the allocations of a stack.
RECURSIVE SomaAlocacoes(_)
SomaAlocacoes(h) ==
    IF h = <<>> THEN 0 ELSE Head(h).quantidade + SomaAlocacoes(Tail(h))

\* Total quantity ever donated.
RECURSIVE TotalDoado(_)
TotalDoado(o) ==
    IF o = <<>> THEN 0 ELSE Head(o).quantidade + TotalDoado(Tail(o))

\* C19 - Global stock conservation: after any sequence of donate, request
\* and undo calls with positive quantities, the quantities of all the units
\* of all the categories of estoque ('Desconhecido' included) plus the
\* quantities of all the allocations of historico_alocacoes add up to the
\* total quantity ever donated.
C19_ConservacaoGlobal ==
    EntreChamadas =>
        TotalEmEstoque(estoque) + SomaAlocacoes(historico_alocacoes)
            = TotalDoado(origem)

\* After an undo, stock sits in 'Desconhecido' and in another category while
\* an allocation is still on the stack.
C19_Testemunha ==
    /\ EntreChamadas
    /\ Itens(estoque, Desconhecido) # <<>>
    /\ Itens(estoque, "Alimentos") # <<>>
    /\ historico_alocacoes # <<>>

----------------------------------------------------------------------------
\* Quantity of the allocations of a stack that reference the request.
RECURSIVE AlocadoAoPedido(_, _)
AlocadoAoPedido(h, id) ==
    IF h = <<>> THEN 0
    ELSE (IF Head(h).pedido_id = id THEN Head(h).quantidade ELSE 0)
             + AlocadoAoPedido(Tail(h), id)

\* C20 - Request-side conservation: after any sequence of donate, request
\* and undo calls with positive quantities, for every request the remaining
\* quantity plus the quantities of the allocations of historico_alocacoes
\* that reference it equals the quantity it was registered with, the
\* remaining quantity is not negative, and the request is marked atendido
\* exactly when its remaining quantity is 0.
C20_ConservacaoDoPedido ==
    EntreChamadas =>
        \A id \in DOMAIN pedidos :
            /\ pedidos[id].quantidade
                   + AlocadoAoPedido(historico_alocacoes, id)
                   = solicitado[id]
            /\ pedidos[id].quantidade >= 0
            /\ pedidos[id].atendido <=> (pedidos[id].quantidade = 0)

\* After an undo, one request is satisfied, one is partly served and one has
\* its full quantity back.
C20_Testemunha ==
    /\ EntreChamadas
    /\ n_aloc > Len(historico_alocacoes)
    /\ \E a, b \in DOMAIN pedidos :
           /\ pedidos[a].atendido
           /\ ~pedidos[b].atendido
           /\ 0 < pedidos[b].quantidade
           /\ pedidos[b].quantidade < solicitado[b]

====
